---- MODULE Spec2Model ----
(***************************************************************************)
(* A model of crossposter: the crosspost package (cli.py, config.py,       *)
(* poster.py) and the legacy script crosspost.py.                          *)
(*                                                                         *)
(* Spec        one run of the package's main(): find and parse the config, *)
(*             resolve credentials (load_config), then either the setup    *)
(*             flow (setup_keychain) or the posting calls of cli.py 45-47. *)
(* SpecFacet   the URL facet computation of post_to_bluesky, as a function *)
(*             of the post text.                                           *)
(* SpecLegacy  one run of the legacy script crosspost.py, which reads its  *)
(*             secrets from environment variables.                         *)
(*                                                                         *)
(* Every handler is one action; what the environment decides (a keychain   *)
(* error, what the user types, whether the platform's API raises) is an    *)
(* input of the action, drawn with \E.                                     *)
(***************************************************************************)
EXTENDS Integers, Sequences, FiniteSets, TLC

VARIABLES
    args,        \* argparse result: [setup, text]
    configFile,  \* what find_config_file finds on disk
    config,      \* the parsed configuration tree, credentials filled in place
    store,       \* the keychain: key -> secret or None
    cache,       \* _credential_cache: key -> secret or None (not cached)
    pc,          \* position of the run
    cur,         \* index of the account the current loop is at
    results,     \* the per-account outcome lines printed by the post functions
    ev,          \* what the last handler did (reads, prompts, writes, return)
    resolved,    \* the keychain keys a credential was resolved for in this run
    exitCode,    \* the process's exit code, meaningful when pc = "exit"
    env,         \* os.environ, read by the legacy script
    text,        \* the post text, as a sequence of characters (SpecFacet)
    facets       \* the facets computed for text (SpecFacet)

vars == <<args, configFile, config, store, cache, pc, cur, results, ev,
          resolved, exitCode, env, text, facets>>

(***************************************************************************)
(* Bounds                                                                  *)
(***************************************************************************)
\* At most this many accounts in one configuration file, over all platforms.
MaxAccounts == 2
\* At most this many pieces in a post text (SpecFacet).
MaxPieces == 4

(***************************************************************************)
(* Values                                                                  *)
(***************************************************************************)
\* Python's None.
None == "None"
\* not x, for the values a credential can take.
Falsy(x) == x \in {None, ""}

\* load_config and setup_keychain visit the platforms in this order.
PlatformOrder == <<"mastodon", "bluesky", "twitter">>
Platforms == {"mastodon", "bluesky", "twitter"}
\* A platform's section is absent, or present with enabled false (or missing,
\* .get("enabled", False)), or present with enabled true.
Status == {"absent", "disabled", "enabled"}

\* keychain_key values of the accounts; NoKey: the account has no keychain_key.
Keys == {"k1", "k2"}
NoKey == "nokey"
\* Secrets: "tok" is in the keychain before the run (a plain token, not JSON),
\* "json" is a stored Twitter bundle (json.dumps of the four fields), "num"
\* is a stored value that is JSON but not an object (such as 123), "new" is
\* what the user types at a prompt, "inl" is a secret written in the config.
\* Before the run k1 holds nothing or a token, k2 nothing, a bundle or "num",
\* and at most one of the two keys is stored.
Secrets == {"tok", "json", "num", "new", "inl"}
StoredBefore ==
    [k \in Keys |-> IF k = "k1" THEN {None, "tok"} ELSE {None, "json", "num"}]
\* An account as parsed: its keychain_key and its credential field (token,
\* password, or the four Twitter fields), None when the file gives none. An
\* account has a keychain_key, or an inline secret and no keychain_key.
AccountKinds ==
    {[key |-> k, cred |-> None] : k \in Keys}
        \cup {[key |-> NoKey, cred |-> "inl"]}

\* pos: the place of the platform's section in the file (0: no section).
NoConfig ==
    [p \in Platforms |-> [status |-> "absent", accounts |-> <<>>, pos |-> 0]]

\* The event record of a handler that touches no credential.
Event(op) ==
    [op |-> op, p |-> "", i |-> 0, key |-> NoKey, cached |-> None,
     seen |-> FALSE, reads |-> 0, got |-> None, asked |-> 0, prompts |-> 0,
     writes |-> 0, entered |-> None, wrote |-> FALSE, ret |-> None,
     rderr |-> FALSE, ctrlc |-> "none"]

(***************************************************************************)
(* config.py: the keychain, the prompt, _resolve_credential                *)
(***************************************************************************)
\* What the environment decides for one handler.
ReadOutcomes == {"ok", "error"}          \* keyring.get_password returns or raises
WriteOutcomes == {"ok", "error"}         \* keyring.set_password returns or raises
PromptOutcomes == {"interrupt", "", "new"}   \* getpass: Ctrl+C, empty, a secret
AnswerOutcomes == {"interrupt", "y", "n"}    \* input() at "Skip? [Y/n]"

\* _get_from_keychain: the stored value, None when the read raises.
get_from_keychain(st, key, rd) ==
    IF rd = "error" THEN None ELSE st[key]

\* _prompt_for_credential: what was typed, None on KeyboardInterrupt.
prompt_for_credential(pr) ==
    IF pr = "interrupt" THEN None ELSE pr

\* _prompt_for_twitter_credentials: the four fields as JSON; None on
\* KeyboardInterrupt or when a field is left empty.
prompt_for_twitter_credentials(pr) ==
    IF pr \in {"interrupt", ""} THEN None ELSE "json"

\* json.loads of a stored Twitter bundle followed by the four .get calls:
\* the fields; "JSONDecodeError" for a value that is not JSON; for a value
\* that is JSON but not an object json.loads returns an int, list or str and
\* the first .get raises "AttributeError".
twitter_fields(blob) ==
    IF blob = "json" THEN "fields"
    ELSE IF blob = "num" THEN "AttributeError"
    ELSE "JSONDecodeError"

\* _resolve_credential without line 234: the secret typed at the prompt is
\* written to the keychain and returned, but not put in the cache.
resolve_credential_uncached(st, ca, key, skip_prompts, rd, pr, wr) ==
    LET base == [ret |-> None, store |-> st, cache |-> ca, cached |-> ca[key],
                 reads |-> 0, got |-> None, prompts |-> 0, writes |-> 0,
                 entered |-> None, wrote |-> FALSE, rderr |-> FALSE,
                 raised |-> FALSE]
    IN  IF ca[key] # None
        THEN [base EXCEPT !.ret = ca[key]]
        ELSE LET credential == get_from_keychain(st, key, rd)
                 read == [base EXCEPT !.reads = 1, !.got = credential,
                                      !.rderr = (rd = "error")]
             IN  IF ~Falsy(credential)
                 THEN [read EXCEPT !.ret = credential,
                                   !.cache = [ca EXCEPT ![key] = credential]]
                 ELSE IF skip_prompts
                 THEN read
                 ELSE LET typed == prompt_for_credential(pr)
                          asked == [read EXCEPT !.prompts = 1, !.entered = typed]
                      IN  IF Falsy(typed)
                          THEN asked
                          ELSE IF wr = "ok"
                          THEN [asked EXCEPT !.writes = 1, !.wrote = TRUE,
                                             !.ret = typed,
                                             !.store = [st EXCEPT ![key] = typed]]
                          ELSE [asked EXCEPT !.writes = 1]

\* _resolve_credential with its return statement after the try block instead
\* of inside it: when keyring.set_password raises, the secret typed at the
\* prompt is returned all the same.
resolve_credential_return_on_failed_write(st, ca, key, skip_prompts, rd, pr, wr) ==
    LET base == [ret |-> None, store |-> st, cache |-> ca, cached |-> ca[key],
                 reads |-> 0, got |-> None, prompts |-> 0, writes |-> 0,
                 entered |-> None, wrote |-> FALSE, rderr |-> FALSE,
                 raised |-> FALSE]
    IN  IF ca[key] # None
        THEN [base EXCEPT !.ret = ca[key]]
        ELSE LET credential == get_from_keychain(st, key, rd)
                 read == [base EXCEPT !.reads = 1, !.got = credential,
                                      !.rderr = (rd = "error")]
             IN  IF ~Falsy(credential)
                 THEN [read EXCEPT !.ret = credential,
                                   !.cache = [ca EXCEPT ![key] = credential]]
                 ELSE IF skip_prompts
                 THEN read
                 ELSE LET typed == prompt_for_credential(pr)
                          asked == [read EXCEPT !.prompts = 1, !.entered = typed]
                      IN  IF Falsy(typed)
                          THEN asked
                          ELSE IF wr = "ok"
                          THEN [asked EXCEPT !.writes = 1, !.wrote = TRUE,
                                             !.ret = typed,
                                             !.store = [st EXCEPT ![key] = typed],
                                             !.cache = [ca EXCEPT ![key] = typed]]
                          ELSE [asked EXCEPT !.writes = 1, !.ret = typed]

\* _resolve_credential without the test of skip_prompts (lines 219-220): a
\* key that is not stored is prompted for in setup mode too.
resolve_credential_prompt_always(st, ca, key, skip_prompts, rd, pr, wr) ==
    LET base == [ret |-> None, store |-> st, cache |-> ca, cached |-> ca[key],
                 reads |-> 0, got |-> None, prompts |-> 0, writes |-> 0,
                 entered |-> None, wrote |-> FALSE, rderr |-> FALSE,
                 raised |-> FALSE]
    IN  IF ca[key] # None
        THEN [base EXCEPT !.ret = ca[key]]
        ELSE LET credential == get_from_keychain(st, key, rd)
                 read == [base EXCEPT !.reads = 1, !.got = credential,
                                      !.rderr = (rd = "error")]
             IN  IF ~Falsy(credential)
                 THEN [read EXCEPT !.ret = credential,
                                   !.cache = [ca EXCEPT ![key] = credential]]
                 ELSE LET typed == prompt_for_credential(pr)
                          asked == [read EXCEPT !.prompts = 1, !.entered = typed]
                      IN  IF Falsy(typed)
                          THEN asked
                          ELSE IF wr = "ok"
                          THEN [asked EXCEPT !.writes = 1, !.wrote = TRUE,
                                             !.ret = typed,
                                             !.store = [st EXCEPT ![key] = typed],
                                             !.cache = [ca EXCEPT ![key] = typed]]
                          ELSE [asked EXCEPT !.writes = 1]

\* _resolve_credential without the test of what the prompt returned (lines
\* 227-228): an empty or interrupted entry is written and returned like a
\* secret.
resolve_credential_store_declined(st, ca, key, skip_prompts, rd, pr, wr) ==
    LET base == [ret |-> None, store |-> st, cache |-> ca, cached |-> ca[key],
                 reads |-> 0, got |-> None, prompts |-> 0, writes |-> 0,
                 entered |-> None, wrote |-> FALSE, rderr |-> FALSE,
                 raised |-> FALSE]
    IN  IF ca[key] # None
        THEN [base EXCEPT !.ret = ca[key]]
        ELSE LET credential == get_from_keychain(st, key, rd)
                 read == [base EXCEPT !.reads = 1, !.got = credential,
                                      !.rderr = (rd = "error")]
             IN  IF ~Falsy(credential)
                 THEN [read EXCEPT !.ret = credential,
                                   !.cache = [ca EXCEPT ![key] = credential]]
                 ELSE IF skip_prompts
                 THEN read
                 ELSE LET typed == prompt_for_credential(pr)
                          asked == [read EXCEPT !.prompts = 1, !.entered = typed]
                      IN  IF wr = "ok"
                          THEN [asked EXCEPT !.writes = 1, !.wrote = TRUE,
                                             !.ret = typed,
                                             !.store = [st EXCEPT ![key] = typed],
                                             !.cache = [ca EXCEPT ![key] = typed]]
                          ELSE [asked EXCEPT !.writes = 1]

\* _resolve_credential with the cache assignment of line 234 ahead of
\* keyring.set_password: the typed secret is cached though the write raised.
resolve_credential_cache_first(st, ca, key, skip_prompts, rd, pr, wr) ==
    LET base == [ret |-> None, store |-> st, cache |-> ca, cached |-> ca[key],
                 reads |-> 0, got |-> None, prompts |-> 0, writes |-> 0,
                 entered |-> None, wrote |-> FALSE, rderr |-> FALSE,
                 raised |-> FALSE]
    IN  IF ca[key] # None
        THEN [base EXCEPT !.ret = ca[key]]
        ELSE LET credential == get_from_keychain(st, key, rd)
                 read == [base EXCEPT !.reads = 1, !.got = credential,
                                      !.rderr = (rd = "error")]
             IN  IF ~Falsy(credential)
                 THEN [read EXCEPT !.ret = credential,
                                   !.cache = [ca EXCEPT ![key] = credential]]
                 ELSE IF skip_prompts
                 THEN read
                 ELSE LET typed == prompt_for_credential(pr)
                          asked == [read EXCEPT !.prompts = 1, !.entered = typed]
                      IN  IF Falsy(typed)
                          THEN asked
                          ELSE IF wr = "ok"
                          THEN [asked EXCEPT !.writes = 1, !.wrote = TRUE,
                                             !.ret = typed,
                                             !.store = [st EXCEPT ![key] = typed],
                                             !.cache = [ca EXCEPT ![key] = typed]]
                          ELSE [asked EXCEPT !.writes = 1,
                                             !.cache = [ca EXCEPT ![key] = typed]]

\* _resolve_credential(service, account_name, platform_name, keychain_key,
\* skip_prompts): the value returned, the keychain and the cache afterwards,
\* and what the call did.
resolve_credential(st, ca, key, skip_prompts, rd, pr, wr) ==
    LET base == [ret |-> None, store |-> st, cache |-> ca, cached |-> ca[key],
                 reads |-> 0, got |-> None, prompts |-> 0, writes |-> 0,
                 entered |-> None, wrote |-> FALSE, rderr |-> FALSE,
                 raised |-> FALSE]
    IN  IF ca[key] # None
        THEN [base EXCEPT !.ret = ca[key]]
        ELSE LET credential == get_from_keychain(st, key, rd)
                 read == [base EXCEPT !.reads = 1, !.got = credential,
                                      !.rderr = (rd = "error")]
             IN  IF ~Falsy(credential)
                 THEN [read EXCEPT !.ret = credential,
                                   !.cache = [ca EXCEPT ![key] = credential]]
                 ELSE IF skip_prompts
                 THEN read
                 ELSE LET typed == prompt_for_credential(pr)
                          asked == [read EXCEPT !.prompts = 1, !.entered = typed]
                      IN  IF Falsy(typed)
                          THEN asked
                          ELSE IF wr = "ok"
                          THEN [asked EXCEPT !.writes = 1, !.wrote = TRUE,
                                             !.ret = typed,
                                             !.store = [st EXCEPT ![key] = typed],
                                             !.cache = [ca EXCEPT ![key] = typed]]
                          ELSE [asked EXCEPT !.writes = 1]

\* The Twitter branch of load_config (lines 292-308): skipped in setup mode,
\* else one keychain read that goes around the cache, and the decomposition.
\* ret is the value the account's credential fields get; "unchanged" leaves
\* them. The except clause (line 307) catches json.JSONDecodeError only:
\* raised tells that another exception leaves load_config.
load_twitter(st, ca, key, skip_prompts, rd) ==
    LET base == [ret |-> "unchanged", store |-> st, cache |-> ca,
                 cached |-> ca[key], reads |-> 0, got |-> None,
                 prompts |-> 0, writes |-> 0, entered |-> None,
                 wrote |-> FALSE, rderr |-> FALSE, raised |-> FALSE]
    IN  IF skip_prompts
        THEN base
        ELSE LET credentials_json == get_from_keychain(st, key, rd)
                 read == [base EXCEPT !.reads = 1, !.got = credentials_json,
                                      !.rderr = (rd = "error")]
             IN  IF Falsy(credentials_json)
                 THEN read
                 ELSE IF twitter_fields(credentials_json) = "JSONDecodeError"
                 THEN read
                 ELSE IF twitter_fields(credentials_json) = "AttributeError"
                 THEN [read EXCEPT !.raised = TRUE]
                 ELSE [read EXCEPT !.ret = twitter_fields(credentials_json)]

\* The body of load_config's account loop (lines 273-308) for one account of
\* platform p.
load_account(p, acct, st, ca, skip_prompts, rd, pr, wr) ==
    IF acct.key = NoKey
    THEN [ret |-> "unchanged", store |-> st, cache |-> ca, cached |-> None,
          reads |-> 0, got |-> None, prompts |-> 0, writes |-> 0,
          entered |-> None, wrote |-> FALSE, rderr |-> FALSE, raised |-> FALSE]
    ELSE IF p = "twitter"
    THEN load_twitter(st, ca, acct.key, skip_prompts, rd)
    ELSE resolve_credential(st, ca, acct.key, skip_prompts, rd, pr, wr)

(***************************************************************************)
(* Orders of iteration                                                     *)
(***************************************************************************)
AccountsOf(c, p) == [i \in 1..Len(c[p].accounts) |-> <<p, i>>]

\* load_config going through the sections as they stand in the file (for
\* platform in config) instead of through its list of platform names.
LoadOrder_as_in_file(c) ==
    LET section(n) == IF \E p \in Platforms : c[p].pos = n
                      THEN AccountsOf(c, CHOOSE p \in Platforms : c[p].pos = n)
                      ELSE <<>>
    IN  section(1) \o section(2) \o section(3)

\* load_config (lines 268-273): every platform present in the file, enabled
\* or not, in PlatformOrder; its accounts in listed order.
LoadOrder(c) ==
    AccountsOf(c, PlatformOrder[1]) \o AccountsOf(c, PlatformOrder[2])
        \o AccountsOf(c, PlatformOrder[3])

\* setup_keychain (lines 324-333): the enabled platforms only.
SetupAccountsOf(c, p) ==
    IF c[p].status = "enabled" THEN AccountsOf(c, p) ELSE <<>>
SetupOrder(c) ==
    SetupAccountsOf(c, PlatformOrder[1]) \o SetupAccountsOf(c, PlatformOrder[2])
        \o SetupAccountsOf(c, PlatformOrder[3])

(***************************************************************************)
(* Spec: one run of main() (cli.py)                                        *)
(***************************************************************************)
\* The orders in which the sections of the present platforms stand in the
\* file (tomllib.load returns a dict that keeps the file's order): the order
\* of PlatformOrder, or its reverse.
Positions(st) ==
    LET n == Cardinality({q \in Platforms : st[q] # "absent"})
        rank(p) == Cardinality({j \in 1..Len(PlatformOrder) :
                       st[PlatformOrder[j]] # "absent"
                       /\ \E m \in j..Len(PlatformOrder) : PlatformOrder[m] = p})
    IN  {[p \in Platforms |-> IF st[p] = "absent" THEN 0 ELSE rank(p)],
         [p \in Platforms |-> IF st[p] = "absent" THEN 0 ELSE n + 1 - rank(p)]}

\* The configurations a config.toml can parse to: each platform absent, or
\* present (disabled or enabled) with at least one account, at most
\* MaxAccounts accounts in all, the sections in either order.
Configs ==
    UNION {
        UNION {
            {[p \in Platforms |->
                [status |-> st[p],
                 accounts |-> IF p = "mastodon" THEN a1
                              ELSE IF p = "bluesky" THEN a2 ELSE a3,
                 pos |-> ps[p]]] :
                <<a1, a2, a3, ps>> \in
                    [1..ln["mastodon"] -> AccountKinds]
                        \X [1..ln["bluesky"] -> AccountKinds]
                        \X [1..ln["twitter"] -> AccountKinds]
                        \X Positions(st)} :
            ln \in {l \in [Platforms -> 0..MaxAccounts] :
                      /\ l["mastodon"] + l["bluesky"] + l["twitter"] <= MaxAccounts
                      /\ \A p \in Platforms : st[p] = "absent" <=> l[p] = 0}} :
        st \in [Platforms -> Status]}

Init ==
    /\ args \in [setup : BOOLEAN, text : {None, "hello"}]
    /\ configFile \in {"absent", "valid", "invalid"}
    /\ config = NoConfig
    /\ store \in {s \in [Keys -> Secrets \cup {None}] :
                    /\ \A k \in Keys : s[k] \in StoredBefore[k]
                    /\ \E k \in Keys : s[k] = None}
    /\ cache = [k \in Keys |-> None]
    /\ pc = "find_config_file"
    /\ cur = 0
    /\ results = <<>>
    /\ ev = Event("start")
    /\ resolved = {}
    /\ exitCode = -1
    /\ env = <<>>
    /\ text = <<>>
    /\ facets = <<>>

\* sys.exit(code), or an exception nobody catches (code 1).
Exit(op, code) ==
    /\ pc' = "exit"
    /\ exitCode' = code
    /\ ev' = Event(op)

\* find_config_file (config.py 83-114): a config in the current directory or
\* under ~/.config is returned; with none, the example is written and the
\* process exits 0, or 1 when writing it fails.
find_config_file(file, created) ==
    IF file # "absent" THEN [exit |-> FALSE, code |-> 0, file |-> file]
    ELSE IF created THEN [exit |-> TRUE, code |-> 0, file |-> "example"]
    ELSE [exit |-> TRUE, code |-> 1, file |-> "absent"]

FindConfigFile ==
    /\ pc = "find_config_file"
    /\ \E created \in BOOLEAN :
        LET r == find_config_file(configFile, created)
        IN  /\ configFile' = r.file
            /\ IF r.exit
               THEN Exit("find_config_file", r.code)
               ELSE /\ pc' = "parse"
                    /\ ev' = Event("find_config_file")
                    /\ UNCHANGED exitCode
    /\ UNCHANGED <<resolved, args, config, store, cache, cur, results, env, text, facets>>

\* load_config lines 257-265: tomllib.load, exit 1 when it raises.
ParseConfig ==
    /\ pc = "parse"
    /\ IF configFile = "invalid"
       THEN /\ Exit("parse", 1)
            /\ UNCHANGED <<config, cur>>
       ELSE /\ \E c \in Configs : config' = c
            /\ pc' = "load"
            /\ cur' = 1
            /\ ev' = Event("parse")
            /\ UNCHANGED exitCode
    /\ UNCHANGED <<resolved, args, configFile, store, cache, results, env, text, facets>>

\* config with the credential field of account i of platform p set to v.
SetCred(c, p, i, v) ==
    [c EXCEPT ![p].accounts[i].cred = v]

\* load_config that saves the tree it filled in back to the file it read.
config_file_saved(file, c) ==
    IF \E p \in Platforms : \E i \in 1..Len(c[p].accounts) :
           c[p].accounts[i].key # NoKey /\ c[p].accounts[i].cred # None
    THEN "saved"
    ELSE file

\* The config file after load_config has filled c in: load_config opens the
\* file for reading only (line 256) and nothing writes it afterwards.
config_file_after_load(file, c) == file

\* load_config lines 268-308, one account: load_config(skip_prompts=args.setup).
\* An exception that leaves load_config leaves main too: exit code 1.
LoadAccount ==
    /\ pc = "load"
    /\ cur <= Len(LoadOrder(config))
    /\ LET p == LoadOrder(config)[cur][1]
           i == LoadOrder(config)[cur][2]
           acct == config[p].accounts[i]
       IN  \E r \in {load_account(p, acct, store, cache, args.setup, rd, pr, wr) :
                       rd \in ReadOutcomes, pr \in PromptOutcomes,
                       wr \in WriteOutcomes} :
             LET e == [Event(IF r.raised THEN "uncaught_load" ELSE "resolve")
                          EXCEPT
                              !.p = p, !.i = i, !.key = acct.key,
                              !.cached = r.cached, !.reads = r.reads,
                              !.seen = acct.key \in resolved, !.got = r.got,
                              !.prompts = r.prompts, !.writes = r.writes,
                              !.entered = r.entered, !.wrote = r.wrote,
                              !.ret = r.ret, !.rderr = r.rderr]
             IN  /\ store' = r.store
                 /\ cache' = r.cache
                 /\ config' = IF r.ret = "unchanged" THEN config
                              ELSE SetCred(config, p, i, r.ret)
                 /\ resolved' = IF r.ret \in {None, "unchanged"} THEN resolved
                                ELSE resolved \cup {acct.key}
                 /\ ev' = e
                 /\ configFile' = config_file_after_load(configFile, config')
                 /\ IF r.raised
                    THEN /\ pc' = "exit"
                         /\ exitCode' = 1
                         /\ UNCHANGED cur
                    ELSE /\ cur' = cur + 1
                         /\ UNCHANGED <<pc, exitCode>>
    /\ UNCHANGED <<args, results, env, text, facets>>

\* main with the text test (line 40) ahead of the setup test (line 31).
main_branch_text_first(a) ==
    IF ~Falsy(a.text) THEN "post_mastodon"
    ELSE IF a.setup THEN "setup"
    ELSE "usage"

\* cli.py 31-42: what main does with the loaded configuration.
main_branch(a) ==
    IF a.setup THEN "setup"
    ELSE IF Falsy(a.text) THEN "usage"
    ELSE "post_mastodon"

\* load_config returns (line 310) and main branches (cli.py 31-45).
MainAfterLoad ==
    /\ pc = "load"
    /\ cur > Len(LoadOrder(config))
    /\ IF main_branch(args) = "usage"
       THEN /\ Exit("usage", 1)
            /\ UNCHANGED cur
       ELSE /\ pc' = main_branch(args)
            /\ cur' = 1
            /\ ev' = Event("main")
            /\ UNCHANGED exitCode
    /\ UNCHANGED <<resolved, args, configFile, config, store, cache, results, env, text, facets>>

(***************************************************************************)
(* setup_keychain (config.py 313-389)                                      *)
(***************************************************************************)
\* The body of setup_keychain's account loop with "continue" in place of the
\* "raise" of line 349: Ctrl+C at the "Skip?" question skips the account.
setup_account_no_reraise(p, acct, st, rd, ans, pr, wr) ==
    LET base == [store |-> st, interrupted |-> FALSE, reads |-> 0,
                 got |-> None, asked |-> 0, prompts |-> 0, writes |-> 0,
                 entered |-> None, wrote |-> FALSE, rderr |-> FALSE,
                 ctrlc |-> "none"]
    IN  IF acct.key = NoKey
        THEN base
        ELSE
        LET existing == get_from_keychain(st, acct.key, rd)
            read == [base EXCEPT !.reads = 1, !.got = existing,
                                 !.rderr = (rd = "error")]
            question == [read EXCEPT !.asked = 1]
            credential == IF p = "twitter"
                          THEN prompt_for_twitter_credentials(pr)
                          ELSE prompt_for_credential(pr)
            at == IF Falsy(existing) THEN read ELSE question
            prompted == [at EXCEPT !.prompts = 1, !.entered = credential,
                                   !.ctrlc = IF pr = "interrupt" THEN "prompt"
                                             ELSE "none"]
        IN  IF ~Falsy(existing) /\ ans = "interrupt"
            THEN [question EXCEPT !.ctrlc = "question"]
            ELSE IF ~Falsy(existing) /\ ans # "n"
            THEN question
            ELSE IF Falsy(credential)
            THEN prompted
            ELSE IF wr = "ok"
            THEN [prompted EXCEPT !.writes = 1, !.wrote = TRUE,
                                  !.store = [st EXCEPT ![acct.key] = credential]]
            ELSE [prompted EXCEPT !.writes = 1]

\* The body of setup_keychain's account loop (lines 333-386) for one account:
\* the keychain afterwards, whether KeyboardInterrupt left the function, and
\* what the body did (ctrlc: the prompt the user pressed Ctrl+C at). The
\* cache is not touched.
setup_account(p, acct, st, rd, ans, pr, wr) ==
    LET base == [store |-> st, interrupted |-> FALSE, reads |-> 0,
                 got |-> None, asked |-> 0, prompts |-> 0, writes |-> 0,
                 entered |-> None, wrote |-> FALSE, rderr |-> FALSE,
                 ctrlc |-> "none"]
    IN  IF acct.key = NoKey
        THEN base
        ELSE
        LET existing == get_from_keychain(st, acct.key, rd)
            read == [base EXCEPT !.reads = 1, !.got = existing,
                                 !.rderr = (rd = "error")]
            question == [read EXCEPT !.asked = 1]
            credential == IF p = "twitter"
                          THEN prompt_for_twitter_credentials(pr)
                          ELSE prompt_for_credential(pr)
            at == IF Falsy(existing) THEN read ELSE question
            prompted == [at EXCEPT !.prompts = 1, !.entered = credential,
                                   !.ctrlc = IF pr = "interrupt" THEN "prompt"
                                             ELSE "none"]
        IN  IF ~Falsy(existing) /\ ans = "interrupt"
            THEN [question EXCEPT !.interrupted = TRUE, !.ctrlc = "question"]
            ELSE IF ~Falsy(existing) /\ ans # "n"
            THEN question
            ELSE IF Falsy(credential)
            THEN prompted
            ELSE IF wr = "ok"
            THEN [prompted EXCEPT !.writes = 1, !.wrote = TRUE,
                                  !.store = [st EXCEPT ![acct.key] = credential]]
            ELSE [prompted EXCEPT !.writes = 1]

\* One account of setup_keychain; a KeyboardInterrupt that leaves it is caught
\* by main (cli.py 35-37), which exits 0.
SetupAccount ==
    /\ pc = "setup"
    /\ cur <= Len(SetupOrder(config))
    /\ LET p == SetupOrder(config)[cur][1]
           i == SetupOrder(config)[cur][2]
           acct == config[p].accounts[i]
       IN  \E r \in {setup_account(p, acct, store, rd, ans, pr, wr) :
                       rd \in ReadOutcomes, ans \in AnswerOutcomes,
                       pr \in PromptOutcomes, wr \in WriteOutcomes} :
             LET e ==[Event(IF r.interrupted THEN "setup_cancelled" ELSE "setup")
                          EXCEPT !.p = p, !.i = i, !.key = acct.key,
                                 !.cached = IF acct.key = NoKey THEN None
                                            ELSE cache[acct.key],
                                 !.seen = acct.key \in resolved,
                                 !.reads = r.reads, !.got = r.got,
                                 !.asked = r.asked,
                                 !.prompts = r.prompts, !.writes = r.writes,
                                 !.entered = r.entered, !.wrote = r.wrote,
                                 !.rderr = r.rderr, !.ctrlc = r.ctrlc]
             IN  /\ store' = r.store
                 /\ ev' = e
                 /\ IF r.interrupted
                    THEN /\ pc' = "exit"
                         /\ exitCode' = 0
                         /\ UNCHANGED cur
                    ELSE /\ cur' = cur + 1
                         /\ UNCHANGED <<pc, exitCode>>
    /\ UNCHANGED <<resolved, args, configFile, config, cache, results, env, text, facets>>

\* setup_keychain returns (line 389) and main exits 0 (cli.py 34).
SetupComplete ==
    /\ pc = "setup"
    /\ cur > Len(SetupOrder(config))
    /\ Exit("setup_complete", 0)
    /\ UNCHANGED <<resolved, args, configFile, config, store, cache, cur, results, env,
                   text, facets>>

(***************************************************************************)
(* poster.py: post_to_mastodon, post_to_bluesky                            *)
(***************************************************************************)
\* Whether the platform's client raises while logging in or posting.
ApiOutcomes == {"ok", "error"}

\* The loop body without its try/except: an exception of the client leaves it.
post_account_uncaught(acct, api) ==
    IF Falsy(acct.cred)
    THEN [outcome |-> "skipped", raised |-> FALSE, lookups |-> 0]
    ELSE IF api = "ok" THEN [outcome |-> "posted", raised |-> FALSE, lookups |-> 0]
    ELSE [outcome |-> "failed", raised |-> TRUE, lookups |-> 0]

\* The loop body without the test of the credential (lines 20-23, 44-47).
post_account_unchecked(acct, api) ==
    IF api = "ok" THEN [outcome |-> "posted", raised |-> FALSE, lookups |-> 0]
    ELSE [outcome |-> "failed", raised |-> FALSE, lookups |-> 0]

\* The loop body resolving lazily: an account that reaches it without a
\* credential has its keychain_key looked up there, before it is skipped.
post_account_lazy(acct, api) ==
    IF Falsy(acct.cred)
    THEN [outcome |-> "skipped", raised |-> FALSE,
          lookups |-> IF acct.key = NoKey THEN 0 ELSE 1]
    ELSE IF api = "ok" THEN [outcome |-> "posted", raised |-> FALSE, lookups |-> 0]
    ELSE [outcome |-> "failed", raised |-> FALSE, lookups |-> 0]

\* The body of the account loop of post_to_mastodon (lines 19-29) and of
\* post_to_bluesky (lines 43-71): the line printed for the account, whether
\* an exception leaves the loop (the except clause catches them all), and
\* the keychain lookups made (none: the body reads account.get("token") or
\* account.get("password"), which load_config filled in).
post_account(acct, api) ==
    IF Falsy(acct.cred)
    THEN [outcome |-> "skipped", raised |-> FALSE, lookups |-> 0]
    ELSE IF api = "ok" THEN [outcome |-> "posted", raised |-> FALSE, lookups |-> 0]
    ELSE [outcome |-> "failed", raised |-> FALSE, lookups |-> 0]

\* One account of platform p's post function, which is at pc = at.
PostAccount(p, at) ==
    /\ pc = at
    /\ config[p].status = "enabled"
    /\ cur <= Len(config[p].accounts)
    /\ \E api \in ApiOutcomes :
        LET r == post_account(config[p].accounts[cur], api)
        IN  IF r.raised
            THEN /\ Exit("uncaught", 1)
                 /\ UNCHANGED <<cur, results>>
            ELSE /\ results' = Append(results,
                                  [p |-> p, i |-> cur, outcome |-> r.outcome])
                 /\ cur' = cur + 1
                 /\ ev' = [Event("post") EXCEPT !.p = p, !.i = cur,
                                                !.key = config[p].accounts[cur].key,
                                                !.reads = r.lookups,
                                                !.ret = r.outcome]
                 /\ UNCHANGED <<pc, exitCode>>
    /\ UNCHANGED <<resolved, args, configFile, config, store, cache, env, text, facets>>

\* The post function of platform p returns: at once when the platform is
\* not enabled (lines 15-16, 39-40), else after its last account.
PostReturn(p, at, next) ==
    /\ pc = at
    /\ config[p].status # "enabled" \/ cur > Len(config[p].accounts)
    /\ pc' = next
    /\ cur' = 1
    /\ ev' = Event("return")
    /\ UNCHANGED <<resolved, args, configFile, config, store, cache, results, exitCode,
                   env, text, facets>>

PostMastodonAccount == PostAccount("mastodon", "post_mastodon")
PostMastodonReturn == PostReturn("mastodon", "post_mastodon", "post_bluesky")
PostBlueskyAccount == PostAccount("bluesky", "post_bluesky")
PostBlueskyReturn == PostReturn("bluesky", "post_bluesky", "post_twitter")

\* cli.py 6 and 47: main imports and calls post_to_twitter, a name poster.py
\* does not define. The functions that exist run as written up to the call;
\* there the unbound name ends the process with an unhandled error (exit
\* code 1). No Twitter account is posted to or reported.
PostTwitterCall ==
    /\ pc = "post_twitter"
    /\ Exit("post_to_twitter", 1)
    /\ UNCHANGED <<resolved, args, configFile, config, store, cache, cur, results, env,
                   text, facets>>

Next ==
    \/ FindConfigFile
    \/ ParseConfig
    \/ LoadAccount
    \/ MainAfterLoad
    \/ SetupAccount
    \/ SetupComplete
    \/ PostMastodonAccount
    \/ PostMastodonReturn
    \/ PostBlueskyAccount
    \/ PostBlueskyReturn
    \/ PostTwitterCall

Spec == Init /\ [][Next]_vars

(***************************************************************************)
(* Properties of a run of main()                                           *)
(***************************************************************************)
\* The accounts post_to_mastodon and post_to_bluesky go through, in order.
PostOrder(c) ==
    SetupAccountsOf(c, "mastodon") \o SetupAccountsOf(c, "bluesky")

\* The accounts the lines of results are about, in the order printed.
Reported == [j \in 1..Len(results) |-> <<results[j].p, results[j].i>>]

\* The account a line of results is about.
AccountOf(r) == config[r.p].accounts[r.i]

\* The run is in, or has been through, the posting calls of cli.py 45-47.
Posting == pc \in {"post_mastodon", "post_bluesky", "post_twitter"}
PostingEnded == pc = "exit" /\ ev.op \in {"post_to_twitter", "uncaught"}

\* C1: an error raised by a platform's client while posting for one account
\* is caught at that account and reported as its failure: a failure line is
\* only ever followed by the run going on, the posting calls are left only at
\* the end of main (never through an exception of a client), and by then
\* post_to_mastodon and post_to_bluesky have printed one line for every
\* account of theirs, in order, whatever failed before it.
C1_ErrorIsolated ==
    /\ \A j \in 1..Len(results) :
         results[j].outcome = "failed" =>
            /\ Posting \/ PostingEnded
            /\ j < Len(results) => Reported[j + 1] = PostOrder(config)[j + 1]
    /\ PostingEnded =>
         /\ ev.op = "post_to_twitter"
         /\ Reported = PostOrder(config)

\* C1 happens: a failed account is followed by a posted one, to the end.
C1_Witness ==
    /\ PostingEnded
    /\ \E j \in 1..Len(results) :
         /\ results[j].outcome = "failed"
         /\ j < Len(results)
         /\ results[j + 1].outcome = "posted"

\* C2 as claimed: nothing is resolved (no keychain read, no prompt, no
\* keychain write) and nothing is posted for an account of a platform that
\* is disabled or absent.
C2_DisabledUntouched ==
    /\ (ev.op = "resolve" /\ ev.reads + ev.prompts + ev.writes > 0)
          => config[ev.p].status = "enabled"
    /\ \A j \in 1..Len(results) : config[results[j].p].status = "enabled"

\* C3 as claimed: a resolution of a keychain key that was resolved earlier in
\* the run, for an account of any platform, reads no keychain and prompts
\* nobody.
C3_ResolvedOnce ==
    (ev.op = "resolve" /\ ev.key # NoKey /\ ev.seen)
        => ev.reads = 0 /\ ev.prompts = 0

\* C4: a call of _resolve_credential that misses the keychain with prompting
\* allowed prompts exactly once; a non-empty entry that the keychain accepts
\* is in the keychain under the same key, in the cache, and returned; and a
\* call for a key that is in the cache reads nothing and prompts nobody. A
\* secret typed in a posting run stays in the cache for the rest of the run.
C4_PromptOncePersistCache ==
    /\ (ev.op = "resolve" /\ ev.key # NoKey /\ ev.p # "twitter") =>
         /\ (ev.cached = None /\ Falsy(ev.got) /\ ~args.setup)
               => ev.reads = 1 /\ ev.prompts = 1
         /\ (ev.prompts = 1 /\ ~Falsy(ev.entered) /\ ev.wrote) =>
               /\ store[ev.key] = ev.entered
               /\ cache[ev.key] = ev.entered
               /\ ev.ret = ev.entered
         /\ ev.cached # None =>
               ev.reads = 0 /\ ev.prompts = 0 /\ ev.ret = ev.cached
         /\ ev.prompts <= 1
    /\ ~args.setup => \A k \in Keys : store[k] = "new" => cache[k] = "new"

\* C4 happens: a second resolution of a key whose secret was typed at a prompt.
C4_Witness ==
    /\ ev.op = "resolve"
    /\ ev.p # "twitter"
    /\ ev.cached = "new"
    /\ ev.reads = 0
    /\ ev.ret = "new"

\* C5: post_to_mastodon and post_to_bluesky print a skip line for an account
\* exactly when its credential is absent, and then call no client; one line
\* per account, so that of two accounts of a platform the one with a
\* credential gets one posted or failed line and the other one skip line.
C5_MissingCredentialSkipped ==
    /\ \A j \in 1..Len(results) :
         /\ results[j].outcome = "skipped" <=> Falsy(AccountOf(results[j]).cred)
         /\ results[j].outcome \in {"skipped", "posted", "failed"}
         /\ \A k \in 1..Len(results) : Reported[j] = Reported[k] => j = k
    /\ (ev.op = "post" /\ ev.ret = "skipped") => pc # "exit"
    /\ PostingEnded =>
         \A n \in 1..Len(PostOrder(config)) :
            \E j \in 1..Len(results) : Reported[j] = PostOrder(config)[n]

\* C5 happens: a platform's two accounts, one skipped and one not.
C5_Witness ==
    /\ PostingEnded
    /\ \E j, k \in 1..Len(results) :
         /\ results[j].p = results[k].p
         /\ results[j].outcome = "skipped"
         /\ results[k].outcome \in {"posted", "failed"}

\* C6 as claimed: when a posting run ends, every account of every enabled
\* platform, Twitter included, has exactly one outcome line.
C6_EveryAccountReported ==
    PostingEnded =>
        \A p \in Platforms :
            config[p].status = "enabled" =>
                \A i \in 1..Len(config[p].accounts) :
                    Cardinality({j \in 1..Len(results) :
                                    Reported[j] = <<p, i>>}) = 1

\* C8: a run with --setup never reaches a post function and prints no
\* outcome line, and exits 0 when setup_keychain returns and when the user
\* cancels it.
C8_SetupNeverPosts ==
    args.setup =>
        /\ ~Posting
        /\ results = <<>>
        /\ (pc = "exit" /\ ev.op \in {"setup_complete", "setup_cancelled"})
              => exitCode = 0

\* C8 happens: the user cancels the setup of a configuration with accounts.
C8_Witness ==
    /\ args.setup
    /\ ~Falsy(args.text)
    /\ pc = "exit"
    /\ ev.op = "setup_cancelled"
    /\ exitCode = 0

\* C9 as claimed: a run whose configuration loads and that has post text
\* exits 0; a run whose configuration file is absent or does not parse exits
\* non-zero, having resolved no credential and posted nothing.
C9_ExitCodes ==
    pc = "exit" =>
        /\ (configFile = "valid" /\ ~Falsy(args.text)) => exitCode = 0
        /\ configFile # "valid" =>
              /\ exitCode # 0
              /\ resolved = {}
              /\ cache = [k \in Keys |-> None]
              /\ results = <<>>

(***************************************************************************)
(* SpecFacet: the facets of post_to_bluesky (poster.py 52-65)              *)
(***************************************************************************)
\* A text is a sequence of characters; "é" is the one character of the
\* alphabet that UTF-8 encodes in two bytes, " " the one \S does not match.
Chars(w) ==
    CASE w = "http://a"  -> <<"h", "t", "t", "p", ":", "/", "/", "a">>
      [] w = "http://ab" -> <<"h", "t", "t", "p", ":", "/", "/", "a", "b">>
      [] w = "https://a" -> <<"h", "t", "t", "p", "s", ":", "/", "/", "a">>
      [] OTHER           -> <<w>>
Pieces == {"http://a", "http://ab", "https://a", " ", "é", "x"}

RECURSIVE Concat(_)
Concat(ws) == IF ws = <<>> THEN <<>> ELSE Chars(Head(ws)) \o Concat(Tail(ws))

\* The post texts: up to MaxPieces pieces, one after the other.
Texts == {Concat(ws) : ws \in UNION {[1..n -> Pieces] : n \in 0..MaxPieces}}

\* str.encode("utf-8"), a sequence of bytes: an ASCII character is its own
\* byte, "é" is 0xC3 0xA9.
Utf8Char(c) == IF c = "é" THEN <<"0xC3", "0xA9">> ELSE <<c>>
RECURSIVE Utf8(_)
Utf8(t) == IF t = <<>> THEN <<>> ELSE Utf8Char(Head(t)) \o Utf8(Tail(t))

\* t has the characters of pat from (1-based) position i on.
HasAt(t, i, pat) ==
    /\ i + Len(pat) - 1 <= Len(t)
    /\ \A k \in 1..Len(pat) : t[i + k - 1] = pat[k]

\* https?:// at position i: the number of characters it takes, 0 for no match.
SchemeAt(t, i) ==
    IF HasAt(t, i, <<"h", "t", "t", "p", "s", ":", "/", "/">>) THEN 8
    ELSE IF HasAt(t, i, <<"h", "t", "t", "p", ":", "/", "/">>) THEN 7
    ELSE 0

\* \S+ from position i: the position after the run of non-space characters.
RECURSIVE NonSpaceEnd(_, _)
NonSpaceEnd(t, i) ==
    IF i > Len(t) \/ t[i] = " " THEN i ELSE NonSpaceEnd(t, i + 1)

\* re.findall(r'(https?://\S+)', text): the matches, left to right, each
\* search resuming after the previous match.
RECURSIVE findall(_, _)
findall(t, i) ==
    IF i > Len(t) THEN <<>>
    ELSE LET m == SchemeAt(t, i)
             e == NonSpaceEnd(t, i + m)
         IN  IF m > 0 /\ e > i + m
             THEN <<SubSeq(t, i, e - 1)>> \o findall(t, e)
             ELSE findall(t, i + 1)

\* text.index(url): the 0-based position of the first occurrence, in
\* characters.
index(t, url) ==
    (CHOOSE i \in 1..Len(t) :
        /\ HasAt(t, i, url)
        /\ \A k \in 1..(i - 1) : ~HasAt(t, k, url)) - 1

\* poster.py 52-65: one facet per match, start = text.index(url) and
\* end = start + len(url).
bluesky_facets(t) ==
    LET urls == findall(t, 1)
    IN  [j \in 1..Len(urls) |->
            [uri |-> urls[j],
             byteStart |-> index(t, urls[j]),
             byteEnd |-> index(t, urls[j]) + Len(urls[j])]]

InitFacet ==
    /\ pc = "facet_input"
    /\ text \in Texts
    /\ facets = <<>>
    /\ args = [setup |-> FALSE, text |-> None]
    /\ configFile = "valid"
    /\ config = NoConfig
    /\ store = [k \in Keys |-> None]
    /\ cache = [k \in Keys |-> None]
    /\ cur = 0
    /\ results = <<>>
    /\ ev = Event("start")
    /\ resolved = {}
    /\ exitCode = -1
    /\ env = <<>>

ExtractFacets ==
    /\ pc = "facet_input"
    /\ facets' = bluesky_facets(text)
    /\ pc' = "facet_done"
    /\ UNCHANGED <<args, configFile, config, store, cache, cur, results, ev,
                   resolved, exitCode, env, text>>

NextFacet == ExtractFacets

SpecFacet == InitFacet /\ [][NextFacet]_vars

\* No URL occurs twice in the sequence urls.
Distinct(urls) ==
    \A j, k \in 1..Len(urls) : urls[j] = urls[k] => j = k

\* C7 as claimed: for a text whose URLs are distinct, there is one facet per
\* URL, in the order of the URLs, carrying its URL, and byteStart and byteEnd
\* are offsets into the UTF-8 encoding of the text: they are the URL's
\* length in bytes apart and the bytes between them are the URL's.
C7_FacetsAreByteSpans ==
    (pc = "facet_done" /\ Distinct(findall(text, 1))) =>
        LET urls == findall(text, 1)
            bytes == Utf8(text)
        IN  /\ Len(facets) = Len(urls)
            /\ \A j \in 1..Len(facets) :
                 /\ facets[j].uri = urls[j]
                 /\ facets[j].byteEnd - facets[j].byteStart = Len(Utf8(urls[j]))
                 /\ facets[j].byteEnd <= Len(bytes)
                 /\ SubSeq(bytes, facets[j].byteStart + 1, facets[j].byteEnd)
                        = Utf8(urls[j])

\* C18: when the same URL string is matched more than once in a text, there
\* is one facet per match, and every facet for that URL carries the byte
\* span of the URL's first occurrence: byteStart is the number of UTF-8 bytes
\* before the first occurrence and byteEnd is byteStart plus the URL's length
\* in bytes.
C18_RepeatedUrlFirstSpan ==
    pc = "facet_done" =>
        LET urls == findall(text, 1)
            first(url) == Len(Utf8(SubSeq(text, 1, index(text, url))))
        IN  /\ Len(facets) = Len(urls)
            /\ \A j \in 1..Len(urls) :
                  (\E k \in 1..Len(urls) : k # j /\ urls[k] = urls[j]) =>
                      /\ facets[j].uri = urls[j]
                      /\ facets[j].byteStart = first(urls[j])
                      /\ facets[j].byteEnd
                            = first(urls[j]) + Len(Utf8(urls[j]))

(***************************************************************************)
(* SpecLegacy: one run of the script crosspost.py                          *)
(***************************************************************************)
\* The names token_env and password_env can give, and what os.getenv gives
\* for a name once config.env is loaded: None (unset), "" or a secret.
EnvVars == {"V1", "V2"}
EnvValues == {None, "", "tok"}
LegacyPlatforms == {"mastodon", "bluesky"}

\* config.json: each platform absent, or present (disabled or enabled) with at
\* least one account, at most MaxAccounts accounts in all.
LegacyConfigs ==
    UNION {
        UNION {
            {[p \in LegacyPlatforms |->
                [status |-> st[p],
                 accounts |-> IF p = "mastodon" THEN a1 ELSE a2]] :
                <<a1, a2>> \in
                    [1..ln["mastodon"] -> [env : EnvVars]]
                        \X [1..ln["bluesky"] -> [env : EnvVars]]} :
            ln \in {l \in [LegacyPlatforms -> 0..MaxAccounts] :
                      /\ l["mastodon"] + l["bluesky"] <= MaxAccounts
                      /\ \A p \in LegacyPlatforms :
                            st[p] = "absent" <=> l[p] = 0}} :
        st \in [LegacyPlatforms -> Status]}

InitLegacy ==
    /\ pc = "legacy_start"
    /\ env \in [EnvVars -> EnvValues]
    /\ args \in [setup : {FALSE}, text : {None, "hello"}]
    /\ configFile \in {"absent", "valid", "invalid"}
    /\ config = [p \in LegacyPlatforms |->
                    [status |-> "absent", accounts |-> <<>>]]
    /\ store = [k \in Keys |-> None]
    /\ cache = [k \in Keys |-> None]
    /\ cur = 0
    /\ results = <<>>
    /\ ev = Event("start")
    /\ resolved = {}
    /\ exitCode = -1
    /\ text = <<>>
    /\ facets = <<>>

\* crosspost.py 48-70: config.env, config.json and the command line. The
\* error paths call sys.exit(1) with sys not imported: the NameError ends the
\* process with code 1 as well. argparse exits 2 without the text.
LegacyStart ==
    /\ pc = "legacy_start"
    /\ \E dotenv \in BOOLEAN :
        IF ~dotenv \/ configFile # "valid"
        THEN /\ Exit("legacy_config", 1)
             /\ UNCHANGED <<config, cur>>
        ELSE IF args.text = None
        THEN /\ Exit("legacy_usage", 2)
             /\ UNCHANGED <<config, cur>>
        ELSE /\ \E c \in LegacyConfigs : config' = c
             /\ pc' = "legacy_mastodon"
             /\ cur' = 1
             /\ ev' = Event("legacy_start")
             /\ UNCHANGED exitCode
    /\ UNCHANGED <<args, configFile, store, cache, results, resolved, env,
                   text, facets>>

\* os.getenv(name) with a variable that is unset and no default.
legacy_getenv_default(e, name) ==
    IF e[name] = None THEN "default" ELSE e[name]

\* os.getenv(name): the value, None when the variable is unset.
legacy_getenv(e, name) == e[name]

\* The body of the account loop of the legacy post_to_mastodon (lines 75-85)
\* and post_to_bluesky (lines 90-118).
legacy_post_account(acct, e, api) ==
    LET token == legacy_getenv(e, acct.env)
    IN  IF Falsy(token) THEN "skipped"
        ELSE IF api = "ok" THEN "posted"
        ELSE "failed"

LegacyPostAccount(p, at) ==
    /\ pc = at
    /\ config[p].status = "enabled"
    /\ cur <= Len(config[p].accounts)
    /\ \E api \in ApiOutcomes :
        LET outcome == legacy_post_account(config[p].accounts[cur], env, api)
        IN  /\ results' = Append(results,
                             [p |-> p, i |-> cur, outcome |-> outcome])
            /\ ev' = [Event("legacy_post") EXCEPT
                         !.p = p, !.i = cur, !.ret = outcome,
                         !.key = config[p].accounts[cur].env]
    /\ cur' = cur + 1
    /\ UNCHANGED <<args, configFile, config, store, cache, pc, resolved,
                   exitCode, env, text, facets>>

\* crosspost.py 121-125: a platform that is not enabled is not called; an
\* enabled one returns after its last account. After Bluesky the script ends.
LegacyPostReturn(p, at, next) ==
    /\ pc = at
    /\ config[p].status # "enabled" \/ cur > Len(config[p].accounts)
    /\ IF next = "exit"
       THEN /\ Exit("legacy_end", 0)
            /\ UNCHANGED cur
       ELSE /\ pc' = next
            /\ cur' = 1
            /\ ev' = Event("return")
            /\ UNCHANGED exitCode
    /\ UNCHANGED <<args, configFile, config, store, cache, results, resolved,
                   env, text, facets>>

LegacyMastodonAccount == LegacyPostAccount("mastodon", "legacy_mastodon")
LegacyMastodonReturn ==
    LegacyPostReturn("mastodon", "legacy_mastodon", "legacy_bluesky")
LegacyBlueskyAccount == LegacyPostAccount("bluesky", "legacy_bluesky")
LegacyBlueskyReturn == LegacyPostReturn("bluesky", "legacy_bluesky", "exit")

NextLegacy ==
    \/ LegacyStart
    \/ LegacyMastodonAccount
    \/ LegacyMastodonReturn
    \/ LegacyBlueskyAccount
    \/ LegacyBlueskyReturn

SpecLegacy == InitLegacy /\ [][NextLegacy]_vars

\* The accounts the legacy script goes through, in order.
LegacyOrder(c) ==
    SetupAccountsOf(c, "mastodon") \o SetupAccountsOf(c, "bluesky")

\* C10: an account whose environment variable is unset gets the missing
\* credential warning and no post; nobody is prompted and the keychain is
\* neither read nor written; and the accounts after it are processed: the
\* script ends with one line for every account of the enabled platforms.
C10_UnsetEnvSkipped ==
    /\ \A j \in 1..Len(results) :
         env[AccountOf(results[j]).env] = None => results[j].outcome = "skipped"
    /\ ev.reads = 0 /\ ev.prompts = 0 /\ ev.writes = 0
    /\ store = [k \in Keys |-> None]
    /\ (ev.op = "legacy_post" /\ ev.ret = "skipped") => pc # "exit"
    /\ pc = "exit" /\ ev.op = "legacy_end" => Reported = LegacyOrder(config)

\* C10 happens: an account with an unset variable is skipped and the account
\* after it is posted to.
C10_Witness ==
    /\ pc = "exit"
    /\ \E j \in 1..Len(results) :
         /\ env[AccountOf(results[j]).env] = None
         /\ results[j].outcome = "skipped"
         /\ j < Len(results)
         /\ results[j + 1].outcome = "posted"

(***************************************************************************)
(* Properties of credential resolution and of the setup flow               *)
(***************************************************************************)
\* C11: an error of the keychain during resolution never ends the run. A read
\* that raises is handled as a key that is not stored: the lookup yields
\* None, so in a posting run _resolve_credential goes on to the prompt and
\* with prompts disallowed it returns None. A write that raises after a
\* prompt makes the resolution return None, with nothing stored or cached
\* for the key. In both cases load_config goes on with the next account.
C11_StoreErrorsNotFatal ==
    ev.op = "resolve" =>
        /\ pc = "load" /\ exitCode = -1
        /\ ev.rderr =>
              /\ ev.got = None
              /\ ev.p # "twitter" /\ ~args.setup => ev.prompts = 1
              /\ ev.p = "twitter" \/ args.setup =>
                    ev.prompts = 0 /\ ev.ret \in {None, "unchanged"}
        /\ ev.writes = 1 /\ ~ev.wrote =>
              /\ ev.ret = None
              /\ cache[ev.key] = None
              /\ store[ev.key] # ev.entered
              /\ config[ev.p].accounts[ev.i].cred = None

\* A read of the keychain raised, the user typed a secret at the prompt, and
\* the write raised too; load_config is still running.
C11_Witness ==
    /\ ev.op = "resolve" /\ ev.rderr
    /\ ev.entered = "new" /\ ev.writes = 1 /\ ~ev.wrote
    /\ pc = "load"

\* C12: no operation writes a secret into the configuration file. The file is
\* written only by find_config_file, which creates the example (no secret in
\* it) where no file exists and ends the run before anything is resolved;
\* a file that was loaded stays as it was found while resolved secrets fill
\* the in-memory tree, and a secret typed at a prompt is persisted in the
\* keychain only.
C12_SecretsNeverWrittenToConfig ==
    /\ configFile \in {"absent", "valid", "invalid", "example"}
    /\ configFile = "example" =>
          /\ pc = "exit" /\ ev.op = "find_config_file"
          /\ config = NoConfig /\ resolved = {}
          /\ \A k \in Keys : store[k] \in StoredBefore[k]
    /\ config # NoConfig => configFile = "valid"
    /\ \A k \in Keys : store[k] \notin StoredBefore[k] =>
          store[k] \in {"new", "json"} /\ configFile = "valid"

\* A secret typed at a prompt is in the keychain and in the in-memory tree,
\* and the file is as it was found.
C12_Witness ==
    /\ ev.op = "resolve" /\ ev.wrote
    /\ config[ev.p].accounts[ev.i].cred = "new"
    /\ store[ev.key] = "new"
    /\ configFile = "valid"

C14_FixedOrder ==
    LET n(p) == Len(config[p].accounts)
        before(p) == IF p = "mastodon" THEN 0
                     ELSE IF p = "bluesky" THEN n("mastodon")
                     ELSE n("mastodon") + n("bluesky")
        lines(p) == {j \in 1..Len(results) : results[j].p = p}
        done(p) == IF config[p].status = "enabled"
                   THEN Cardinality(lines(p)) = n(p)
                   ELSE lines(p) = {}
    IN  /\ ev.op = "resolve" => cur - 1 = before(ev.p) + ev.i
        /\ \A j, k \in 1..Len(results) :
              j < k =>
                /\ results[j].p = results[k].p => results[j].i < results[k].i
                /\ ~(results[j].p = "bluesky" /\ results[k].p = "mastodon")
        /\ \A j \in 1..Len(results) :
              results[j].i = Cardinality({k \in lines(results[j].p) : k <= j})
        /\ pc = "post_mastodon" => lines("bluesky") = {}
        /\ pc = "post_bluesky" => done("mastodon")
        /\ pc = "post_twitter" \/ ev.op = "post_to_twitter" =>
              done("mastodon") /\ done("bluesky")

\* The file has its [bluesky] section ahead of its [mastodon] section; the
\* Mastodon account was resolved and posted to first, then the Bluesky one.
C14_Witness ==
    /\ config["bluesky"].pos = 1 /\ config["mastodon"].pos = 2
    /\ Len(results) = 2
    /\ results[1].p = "mastodon" /\ results[2].p = "bluesky"
    /\ pc = "post_twitter"

\* C15: when load_config runs in setup mode (prompts disallowed), no
\* resolution prompts or writes the keychain, for any account; a key that is
\* not in the keychain (or whose read fails) resolves to None, leaves no
\* entry in the cache and leaves the account without a credential.
C15_NoPromptWhenDisallowed ==
    /\ args.setup /\ ev.op = "resolve" =>
          /\ ev.prompts = 0 /\ ev.writes = 0 /\ ~ev.wrote
          /\ ev.reads = 1 /\ Falsy(ev.got) =>
                /\ ev.ret = None
                /\ cache[ev.key] = None
                /\ config[ev.p].accounts[ev.i].cred = None
    /\ args.setup /\ pc = "load" => \A k \in Keys : store[k] \in StoredBefore[k]

\* In setup mode the key of the second account was looked up and not found.
C15_Witness ==
    /\ args.setup /\ ev.op = "resolve"
    /\ cur = 3 /\ ev.reads = 1 /\ ev.got = None /\ ~ev.rderr
    /\ ev.ret = None

\* C16: in a posting run, an empty entry or an interrupt at the credential
\* prompt makes the resolution return None: nothing is written to the
\* keychain, the key gets no cache entry, the account is left without a
\* credential, and load_config goes on.
C16_PromptDeclined ==
    ~args.setup /\ ev.op = "resolve" /\ ev.prompts = 1 /\ Falsy(ev.entered) =>
        /\ ev.ret = None
        /\ ev.writes = 0 /\ ~ev.wrote
        /\ store[ev.key] \in StoredBefore[ev.key]
        /\ cache[ev.key] = None
        /\ config[ev.p].accounts[ev.i].cred = None
        /\ pc = "load" /\ exitCode = -1

\* The user pressed Ctrl+C at the prompt for the first of two accounts and
\* load_config is about to resolve the second.
C16_Witness ==
    /\ ~args.setup /\ ev.op = "resolve" /\ ev.prompts = 1
    /\ ev.entered = None
    /\ pc = "load" /\ cur = 2 /\ Len(LoadOrder(config)) = 2

\* C17 as stated: in the setup flow, after a user interrupt at any prompt
\* (the "Skip?" question or a credential entry prompt) no further account is
\* asked or prompted for and no further keychain write happens.
C17_InterruptAbortsSetup ==
    [][args.setup /\ ev.ctrlc # "none" =>
          ev'.asked = 0 /\ ev'.prompts = 0 /\ ev'.writes = 0]_vars

\* C17, amended: in the setup flow, Ctrl+C at the "Skip?" question ends
\* setup_keychain at once (no prompt, no write, the stored secret kept) and the
\* process exits 0; Ctrl+C at a credential entry prompt only skips that
\* account (nothing is written for it) and setup_keychain goes on with the
\* next account; setup ends with exit code 0 either way.
C17_InterruptAtQuestionAborts ==
    /\ ev.ctrlc = "question" =>
          /\ args.setup /\ ev.op = "setup_cancelled"
          /\ pc = "exit" /\ exitCode = 0
          /\ ev.prompts = 0 /\ ev.writes = 0
          /\ store[ev.key] = ev.got
    /\ ev.ctrlc = "prompt" =>
          /\ args.setup /\ ev.op = "setup"
          /\ pc = "setup" /\ exitCode = -1
          /\ ev.entered = None /\ ev.writes = 0 /\ ~ev.wrote
    /\ ev.op \in {"setup_cancelled", "setup_complete"} =>
          pc = "exit" /\ exitCode = 0

\* Ctrl+C at the "Skip?" question for the first of two accounts: the process
\* has exited with the second account never asked about.
C17_Witness ==
    /\ ev.ctrlc = "question" /\ pc = "exit"
    /\ cur = 1 /\ Len(SetupOrder(config)) = 2
    /\ config[SetupOrder(config)[2][1]].accounts[SetupOrder(config)[2][2]].key # NoKey

\* C19: the Twitter credential of an account is obtained with one keychain
\* lookup of its key and then decomposed into its fields; when the stored
\* value is malformed (not the JSON object the fields are taken from) the
\* failure concerns that account only: the account is left without
\* credential fields and load_config goes on, the run not terminated.
C19_MalformedBundleIsolated ==
    ev.p = "twitter" /\ ev.op \in {"resolve", "uncaught_load"}
        /\ ev.key # NoKey /\ ~args.setup =>
        /\ ev.reads = 1 /\ ev.prompts = 0 /\ ev.writes = 0
        /\ ev.got = "json" => ev.ret = "fields"
        /\ ev.got # "json" =>
              /\ ev.op = "resolve"
              /\ ev.ret = "unchanged"
              /\ config[ev.p].accounts[ev.i].cred = None
              /\ pc = "load" /\ exitCode = -1

\* C20 as stated: in every reachable state, of a posting run or of a setup
\* run, every cache entry equals what the keychain holds for the same key.
C20_CacheMatchesStore ==
    \A k \in Keys : cache[k] # None => cache[k] = store[k]

\* C20, amended: every cache entry equals what the keychain holds for its
\* key in every state of a posting run, and in a setup run until
\* setup_keychain starts; setup_keychain writes the keychain without touching
\* the cache, so from then on an entry differs from the keychain exactly when
\* setup_keychain has replaced the secret that was stored before the run.
C20_CacheMatchesStoreOutsideSetup ==
    /\ ~args.setup \/ pc \in {"find_config_file", "parse", "load"} =>
          \A k \in Keys : cache[k] # None => cache[k] = store[k]
    /\ \A k \in Keys :
          cache[k] # None /\ cache[k] # store[k] =>
              /\ args.setup /\ pc \in {"setup", "exit"}
              /\ cache[k] \in StoredBefore[k]
              /\ store[k] \in {"new", "json"}

\* A posting run in which one key was found in the keychain and another was
\* typed at the prompt: both are cached as stored.
C20_Witness ==
    /\ ~args.setup /\ Posting
    /\ cache["k1"] = "new" /\ store["k1"] = "new"
    /\ cache["k2"] = "json" /\ store["k2"] = "json"

\* C21: a run without the text argument and without --setup prints the usage
\* and exits with a code other than 0, and up to that exit no credential is
\* prompted for, nothing is written to the keychain and no post is made.
C21_UsageWithoutSideEffects ==
    ~args.setup /\ Falsy(args.text) =>
        /\ ev.prompts = 0 /\ ev.writes = 0 /\ ~ev.wrote
        /\ \A k \in Keys : store[k] \in StoredBefore[k]
        /\ results = <<>> /\ ~Posting
        /\ ev.op = "usage" => pc = "exit" /\ exitCode = 1

====
